---- MODULE Spec2Model ----
(***************************************************************************)
(* A model of the Brainfuck compiler and virtual machine of src/main.rs.   *)
(*                                                                         *)
(* compile is modelled twice over the same step operators: as the pure     *)
(* function compile(text) and as the actions Tokenize, Scan, CheckStack,   *)
(* SwapPair and ReturnOk, which walk through its loops one iteration at a  *)
(* time.  eval_on_tape is modelled by the operator exec (one iteration of  *)
(* its while loop) and the actions Step and Halt.                          *)
(*                                                                         *)
(* Indices are the source's 0-based indices; At(s, i) reads the TLA+       *)
(* sequence s at the source index i.                                       *)
(***************************************************************************)
EXTENDS Integers, Sequences, FiniteSets, TLC

VARIABLES
    args,                \* main: the command-line arguments after the program's name
    stderr,              \* main: the characters written to the error channel
    main_result,         \* main: its return value once pc = "exit"
    text,                \* compile's argument: the raw source, a sequence of characters
    tokens,              \* compile: the filtered characters
    i,                   \* compile: the index of the scan loop
    brackets_stack,      \* compile: positions of the '[' still open
    brackets_swaps,      \* compile: the pairs still to be swapped
    commands,            \* compile: the emitted list; eval_on_tape: its argument
    pc,                  \* compile's position: "start", "scan", "swap", "done";
                         \* main's position: "main", "eval", "exit"
    result,              \* compile's return value once pc = "done"
    tape,                \* eval_on_tape: the tape, held as its length and the
                         \* cells that are not zero
    data_pointer,        \* eval_on_tape: usize, held as its signed residue
    instruction_pointer, \* eval_on_tape
    reader,              \* what the input channel still holds
    reader0,             \* the input channel as it was when the program started
    writer,              \* the bytes the output channel has accepted
    writer_full,         \* the output channel has run out of room
    status,              \* eval_on_tape: "idle", "running", or how it ended
    tape0,               \* the tape as it was passed to eval_on_tape
    overflow_checks      \* the build: TRUE when arithmetic overflow panics

vars == <<args, stderr, main_result,
          text, tokens, i, brackets_stack, brackets_swaps, commands, pc, result,
          tape, data_pointer, instruction_pointer, reader, reader0, writer, writer_full,
          status, tape0, overflow_checks>>

main_vars == <<args, stderr, main_result>>

compile_vars == <<text, tokens, i, brackets_stack, brackets_swaps, commands, pc, result>>
eval_vars == <<tape, data_pointer, instruction_pointer, reader, reader0, writer,
               writer_full, status, tape0, overflow_checks>>

(***************************************************************************)
(* Bounds of the model.                                                    *)
(***************************************************************************)
MaxLen == 4      \* longest raw source text given to compile
MaxProg == 3     \* longest program run by the virtual machine
TapeLen == 2     \* cells of the tape the virtual machine is given
MaxIn == 1       \* longest script of the input channel
MaxOut == 2      \* bytes the output channel has room for
MaxA == 6        \* largest first cell given to the transfer loop
MaxMain == 2     \* longest source text given to main
MaxEcho == 3     \* longest input given to the echo program

(***************************************************************************)
(* Characters.                                                             *)
(***************************************************************************)
charset == {">", "<", "+", "-", ".", ",", "[", "]"}

\* A character outside charset: every such character is treated alike.
Inert == {"x"}

Chars == charset \cup Inert

SeqsUpTo(S, n) == UNION {[1..k -> S] : k \in 0..n}

Texts == SeqsUpTo(Chars, MaxLen)

At(s, idx) == s[idx + 1]

(***************************************************************************)
(* Command and ParsingError.                                               *)
(***************************************************************************)
IncrementDataPointer == [op |-> "IncrementDataPointer"]
DecrementDataPointer == [op |-> "DecrementDataPointer"]
Increment == [op |-> "Increment"]
Decrement == [op |-> "Decrement"]
WriteByte == [op |-> "WriteByte"]
ReadByte == [op |-> "ReadByte"]
JumpForwardIfZero(address) == [op |-> "JumpForwardIfZero", address |-> address]
JumpBackwardIfNonZero(address) == [op |-> "JumpBackwardIfNonZero", address |-> address]

IsJump(c) == c.op \in {"JumpForwardIfZero", "JumpBackwardIfNonZero"}

UnmatchedBracket(address) == [kind |-> "UnmatchedBracket", address |-> address]

Ok(v) == [tag |-> "Ok", val |-> v]
Err(e) == [tag |-> "Err", val |-> e]
None == [tag |-> "None"]

(***************************************************************************)
(* compile, step by step.                                                  *)
(***************************************************************************)
\* Filter as take_while would compute it: the scan of the text stops at the first
\* character outside charset.
RECURSIVE FilterTakeWhile(_)
FilterTakeWhile(s) ==
    IF s = <<>> \/ Head(s) \notin charset THEN <<>>
    ELSE <<Head(s)>> \o FilterTakeWhile(Tail(s))

\* text.chars().filter(|c| charset.contains(*c)).collect()
Filter(s) == SelectSeq(s, LAMBDA c : c \in charset)

\* The match with the ']' arm carrying the position after its own.
EmitPastEnd(t, idx) ==
    CASE t = ">" -> IncrementDataPointer
      [] t = "<" -> DecrementDataPointer
      [] t = "+" -> Increment
      [] t = "-" -> Decrement
      [] t = "." -> WriteByte
      [] t = "," -> ReadByte
      [] t = "[" -> JumpBackwardIfNonZero(idx)
      [] t = "]" -> JumpForwardIfZero(idx + 1)

\* The command the match emits for token t at filtered position idx.
Emit(t, idx) ==
    CASE t = ">" -> IncrementDataPointer
      [] t = "<" -> DecrementDataPointer
      [] t = "+" -> Increment
      [] t = "-" -> Decrement
      [] t = "." -> WriteByte
      [] t = "," -> ReadByte
      [] t = "[" -> JumpBackwardIfNonZero(idx)
      [] t = "]" -> JumpForwardIfZero(idx)

\* brackets_stack.push(i)
Push(stack, idx) == Append(stack, idx)

\* brackets_stack.pop(): the top is the last element.
Top(stack) == stack[Len(stack)]

\* pop() as last() would leave the stack: unchanged.
PopKeeps(stack) == stack

Pop(stack) == SubSeq(stack, 1, Len(stack) - 1)

\* The innermost open bracket instead of the earliest.
UnmatchedOpenLast(stack) == stack[Len(stack)]

\* brackets_stack[0], the position reported for an unmatched '['.
UnmatchedOpen(stack) == stack[1]

\* The swap left out.
SwapNone(cmds, a, b) == cmds

\* commands.swap(a, b)
Swap(cmds, a, b) == [cmds EXCEPT ![a + 1] = cmds[b + 1], ![b + 1] = cmds[a + 1]]

\* The state of the scan loop before its first iteration.
ScanInit == [i |-> 0, brackets_stack |-> <<>>, brackets_swaps |-> <<>>,
             commands |-> <<>>, failed |-> FALSE]

\* The scan loop with an unmatched ']' passed over instead of returned.
ScanTokenSkip(st, t) ==
    IF t = "[" THEN
        [st EXCEPT !.i = st.i + 1,
                   !.brackets_stack = Push(st.brackets_stack, st.i),
                   !.commands = Append(st.commands, Emit(t, st.i))]
    ELSE IF t = "]" /\ st.brackets_stack # <<>> THEN
        [st EXCEPT !.i = st.i + 1,
                   !.brackets_stack = Pop(st.brackets_stack),
                   !.brackets_swaps =
                       Append(st.brackets_swaps, <<Top(st.brackets_stack), st.i>>),
                   !.commands = Append(st.commands, Emit(t, st.i))]
    ELSE
        [st EXCEPT !.i = st.i + 1,
                   !.commands = Append(st.commands, Emit(t, st.i))]

\* One iteration of the scan loop on token t: st.i is the loop's index. With
\* failed set, the loop has returned Err(UnmatchedBracket(st.i)).
ScanToken(st, t) ==
    IF t = "[" THEN
        [st EXCEPT !.i = st.i + 1,
                   !.brackets_stack = Push(st.brackets_stack, st.i),
                   !.commands = Append(st.commands, Emit(t, st.i))]
    ELSE IF t = "]" THEN
        IF st.brackets_stack # <<>> THEN
            [st EXCEPT !.i = st.i + 1,
                       !.brackets_stack = Pop(st.brackets_stack),
                       !.brackets_swaps =
                           Append(st.brackets_swaps, <<Top(st.brackets_stack), st.i>>),
                       !.commands = Append(st.commands, Emit(t, st.i))]
        ELSE [st EXCEPT !.failed = TRUE]
    ELSE
        [st EXCEPT !.i = st.i + 1,
                   !.commands = Append(st.commands, Emit(t, st.i))]

\* The scan loop from state st over the tokens toks from st.i on.
RECURSIVE ScanLoop(_, _)
ScanLoop(st, toks) ==
    IF st.failed \/ st.i >= Len(toks) THEN st
    ELSE ScanLoop(ScanToken(st, At(toks, st.i)), toks)

\* for (a, b) in brackets_swaps { commands.swap(a, b) }
RECURSIVE SwapLoop(_, _)
SwapLoop(cmds, swaps) ==
    IF swaps = <<>> THEN cmds
    ELSE SwapLoop(Swap(cmds, Head(swaps)[1], Head(swaps)[2]), Tail(swaps))

\* compile as a function of its argument.
compile(s) ==
    LET st == ScanLoop(ScanInit, Filter(s)) IN
    IF st.failed THEN Err(UnmatchedBracket(st.i))
    ELSE IF st.brackets_stack # <<>>
        THEN Err(UnmatchedBracket(UnmatchedOpen(st.brackets_stack)))
    ELSE Ok(SwapLoop(st.commands, st.brackets_swaps))

\* The scan state held in the variables.
ScanState == [i |-> i, brackets_stack |-> brackets_stack,
              brackets_swaps |-> brackets_swaps, commands |-> commands,
              failed |-> FALSE]

\* A slice of bytes is held as its length and its cells that are not zero, by
\* index from 0.  Vec(s) is the slice whose bytes are those of the sequence s.
Vec(s) ==
    [len |-> Len(s),
     cells |-> [k \in {j \in 0..(Len(s) - 1) : s[j + 1] # 0} |-> s[k + 1]]]

\* t[k], for an index k inside the slice.
Index(t, k) == IF k \in DOMAIN t.cells THEN t.cells[k] ELSE 0

\* The cells c with cell k holding v.
Put(c, k, v) ==
    [j \in (IF v = 0 THEN DOMAIN c \ {k} ELSE DOMAIN c \cup {k}) |->
        IF j = k THEN v ELSE c[j]]

EvalIdle ==
    /\ tape = Vec(<<>>)
    /\ data_pointer = 0
    /\ instruction_pointer = 0
    /\ reader = <<>>
    /\ reader0 = <<>>
    /\ writer = <<>>
    /\ writer_full = FALSE
    /\ status = "idle"
    /\ tape0 = Vec(<<>>)
    /\ overflow_checks = FALSE

\* compile is called on a text.
Init ==
    /\ text \in Texts
    /\ args = <<text>>
    /\ stderr = <<>>
    /\ main_result = None
    /\ tokens = <<>>
    /\ i = 0
    /\ brackets_stack = <<>>
    /\ brackets_swaps = <<>>
    /\ commands = <<>>
    /\ pc = "start"
    /\ result = None
    /\ EvalIdle

\* Lines 31-37: the filter and the empty vectors.
Tokenize ==
    /\ pc = "start"
    /\ tokens' = Filter(text)
    /\ pc' = "scan"
    /\ UNCHANGED <<text, i, brackets_stack, brackets_swaps, commands, result>>
    /\ UNCHANGED eval_vars
    /\ UNCHANGED main_vars

\* Lines 39-62: one iteration of the scan loop.
Scan ==
    /\ pc = "scan"
    /\ i < Len(tokens)
    /\ LET st == ScanToken(ScanState, At(tokens, i)) IN
        /\ i' = st.i
        /\ brackets_stack' = st.brackets_stack
        /\ brackets_swaps' = st.brackets_swaps
        /\ commands' = st.commands
        /\ pc' = IF st.failed THEN "done" ELSE "scan"
        /\ result' = IF st.failed THEN Err(UnmatchedBracket(st.i)) ELSE result
    /\ UNCHANGED <<text, tokens>>
    /\ UNCHANGED eval_vars
    /\ UNCHANGED main_vars

\* Lines 64-66: the check of the stack after the scan.
CheckStack ==
    /\ pc = "scan"
    /\ i >= Len(tokens)
    /\ IF brackets_stack # <<>>
       THEN /\ pc' = "done"
            /\ result' = Err(UnmatchedBracket(UnmatchedOpen(brackets_stack)))
       ELSE /\ pc' = "swap"
            /\ result' = result
    /\ UNCHANGED <<text, tokens, i, brackets_stack, brackets_swaps, commands>>
    /\ UNCHANGED eval_vars
    /\ UNCHANGED main_vars

\* Lines 68-70: one iteration of the swap loop.
SwapPair ==
    /\ pc = "swap"
    /\ brackets_swaps # <<>>
    /\ commands' = Swap(commands, Head(brackets_swaps)[1], Head(brackets_swaps)[2])
    /\ brackets_swaps' = Tail(brackets_swaps)
    /\ UNCHANGED <<text, tokens, i, brackets_stack, pc, result>>
    /\ UNCHANGED eval_vars
    /\ UNCHANGED main_vars

\* Line 72.
ReturnOk ==
    /\ pc = "swap"
    /\ brackets_swaps = <<>>
    /\ pc' = "done"
    /\ result' = Ok(commands)
    /\ UNCHANGED <<text, tokens, i, brackets_stack, brackets_swaps, commands>>
    /\ UNCHANGED eval_vars
    /\ UNCHANGED main_vars

Next == Tokenize \/ Scan \/ CheckStack \/ SwapPair \/ ReturnOk

Spec == Init /\ [][Next]_vars

(***************************************************************************)
(* eval_on_tape.                                                           *)
(*                                                                         *)
(* A cell is a u8.  data_pointer is a usize, held as the signed residue of *)
(* its value: -k stands for 2^64 - k, the value a wrapping subtraction     *)
(* below 0 leaves.  Between two accesses of the tape the pointer moves by  *)
(* at most the length of the program, so the residue is exact.             *)
(*                                                                         *)
(* Arithmetic overflow panics in a build with overflow checks (cargo's dev *)
(* and test profiles) and wraps in a build without them (the release       *)
(* profile): overflow_checks is the build, fixed for a run.                *)
(***************************************************************************)
Byte == 256

Value(v) == [panic |-> FALSE, value |-> v]
Panicked == [panic |-> TRUE, value |-> 0]

\* tape[data_pointer] += 1
cell_add(cell, checks) ==
    IF cell + 1 >= Byte
    THEN IF checks THEN Panicked ELSE Value((cell + 1) % Byte)
    ELSE Value(cell + 1)

\* tape[data_pointer] -= 1
cell_sub(cell, checks) ==
    IF cell - 1 < 0
    THEN IF checks THEN Panicked ELSE Value((cell - 1) % Byte)
    ELSE Value(cell - 1)

\* data_pointer += 1; the residue -1 is usize::MAX.
pointer_add(dp, checks) ==
    IF dp = -1 /\ checks THEN Panicked ELSE Value(dp + 1)

\* A pointer that stops at 0.
pointer_sub_saturating(dp, checks) ==
    IF dp = 0 THEN Value(0) ELSE Value(dp - 1)

\* data_pointer -= 1
pointer_sub(dp, checks) ==
    IF dp = 0 /\ checks THEN Panicked ELSE Value(dp - 1)

\* The index check of tape[data_pointer] and of tape[data_pointer..data_pointer + 1].
InBounds(t, dp) == dp >= 0 /\ dp < t.len

\* The input channel: what its reads will return, in order. A read of the empty
\* script is the end of the input.
ReadOk(b) == [kind |-> "byte", byte |-> b]
ReadFail == [kind |-> "error"]

\* The match on read_exact with the end of the input returned as an error.
read_byte_strict(rd) ==
    IF rd = <<>> THEN [kind |-> "error", reader |-> rd]
    ELSE IF Head(rd).kind = "byte"
        THEN [kind |-> "byte", byte |-> Head(rd).byte, reader |-> Tail(rd)]
    ELSE [kind |-> "error", reader |-> Tail(rd)]

\* The match on reader.read_exact(&mut buf): the byte read, 0 at the end of
\* the input, or the error to return.
read_byte(rd) ==
    IF rd = <<>> THEN [kind |-> "byte", byte |-> 0, reader |-> rd]
    ELSE IF Head(rd).kind = "byte"
        THEN [kind |-> "byte", byte |-> Head(rd).byte, reader |-> Tail(rd)]
    ELSE [kind |-> "error", reader |-> Tail(rd)]

\* What writer.write may return: Ok(1), Ok(0) or an error. A channel that has
\* run out of room (a slice writer that is full) accepts nothing more, and no
\* channel of the model has room for more than MaxOut bytes.
WriteResults(wr, full) ==
    IF full \/ Len(wr) >= MaxOut THEN {"nothing", "error"}
    ELSE {"written", "nothing", "error"}

\* The jump conditions, inverted.
forward_taken_inverted(cell) == cell # 0

\* if tape[data_pointer] == 0
forward_taken(cell) == cell = 0

backward_taken_inverted(cell) == cell = 0

\* if tape[data_pointer] != 0
backward_taken(cell) == cell # 0

\* The store at the cell after the current one.
store_next(t, dp, v) ==
    [t EXCEPT !.cells = Put(@, IF dp + 1 < t.len THEN dp + 1 ELSE dp, v)]

\* tape[data_pointer] = v, for a data pointer inside the tape.
store(t, dp, v) == [t EXCEPT !.cells = Put(@, dp, v)]

\* A failed write that is returned only after the iteration has moved on.
write_failed_late(st) ==
    [st EXCEPT !.status = "err_write", !.instruction_pointer = @ + 1]

\* The ? on writer.write: the error is returned at once.
write_failed(st) == [st EXCEPT !.status = "err_write"]

\* One iteration of the while loop on command cmd, from the state st, with w
\* what the output channel answers should the command write.
exec(cmd, st, w, checks) ==
    LET dp == st.data_pointer
        inb == InBounds(st.tape, dp)
        cell == Index(st.tape, dp)
        Abort(s) == [s EXCEPT !.status = "panic"]
        Advance(s) == [s EXCEPT !.instruction_pointer = @ + 1]
        Store(s, v) == [s EXCEPT !.tape = store(@, dp, v)]
    IN
    CASE cmd.op = "IncrementDataPointer" ->
            LET r == pointer_add(dp, checks) IN
            IF r.panic THEN Abort(st)
            ELSE Advance([st EXCEPT !.data_pointer = r.value])
      [] cmd.op = "DecrementDataPointer" ->
            LET r == pointer_sub(dp, checks) IN
            IF r.panic THEN Abort(st)
            ELSE Advance([st EXCEPT !.data_pointer = r.value])
      [] cmd.op = "Increment" ->
            IF ~inb THEN Abort(st)
            ELSE LET r == cell_add(cell, checks) IN
                 IF r.panic THEN Abort(st) ELSE Advance(Store(st, r.value))
      [] cmd.op = "Decrement" ->
            IF ~inb THEN Abort(st)
            ELSE LET r == cell_sub(cell, checks) IN
                 IF r.panic THEN Abort(st) ELSE Advance(Store(st, r.value))
      [] cmd.op = "WriteByte" ->
            IF ~inb THEN Abort(st)
            ELSE IF w = "error" THEN write_failed(st)
            ELSE IF w = "written"
                THEN Advance([st EXCEPT !.writer = Append(@, cell)])
            ELSE Advance([st EXCEPT !.writer_full = TRUE])
      [] cmd.op = "ReadByte" ->
            LET r == read_byte(st.reader)
                s1 == [st EXCEPT !.reader = r.reader]
            IN
            IF r.kind = "error" THEN [s1 EXCEPT !.status = "err_read"]
            ELSE IF ~inb THEN Abort(s1)
            ELSE Advance(Store(s1, r.byte))
      [] cmd.op = "JumpForwardIfZero" ->
            IF ~inb THEN Abort(st)
            ELSE IF forward_taken(cell)
                THEN Advance([st EXCEPT !.instruction_pointer = cmd.address])
            ELSE Advance(st)
      [] cmd.op = "JumpBackwardIfNonZero" ->
            IF ~inb THEN Abort(st)
            ELSE IF backward_taken(cell)
                THEN Advance([st EXCEPT !.instruction_pointer = cmd.address])
            ELSE Advance(st)

\* The state of eval_on_tape held in the variables.
EvalState == [tape |-> tape, data_pointer |-> data_pointer,
              instruction_pointer |-> instruction_pointer,
              reader |-> reader, writer |-> writer, writer_full |-> writer_full,
              status |-> status]

\* The scripts of the input channel: bytes, with at most a failing read at the end.
InBytes == {1, Byte - 1}

Readers ==
    {r \in SeqsUpTo({ReadOk(b) : b \in InBytes} \cup {ReadFail}, MaxIn) :
        \A k \in 1..(Len(r) - 1) : r[k] # ReadFail}

Programs == {s \in SeqsUpTo(charset, MaxProg) : compile(s).tag = "Ok"}

InitCells == {0, 1}

\* The variables of compile once compile(s) has returned.
Compiled(s) ==
    /\ args = <<s>>
    /\ stderr = <<>>
    /\ main_result = None
    /\ text = s
    /\ tokens = Filter(s)
    /\ i = Len(Filter(s))
    /\ brackets_stack = <<>>
    /\ brackets_swaps = <<>>
    /\ commands = compile(s).val
    /\ pc = "done"
    /\ result = compile(s)

\* eval_on_tape is called with a compiled program, the data pointer at the
\* midpoint of the tape as eval places it.
InitEval ==
    /\ \E s \in Programs : Compiled(s)
    /\ tape \in {Vec(s) : s \in [1..TapeLen -> InitCells]}
    /\ tape0 = tape
    /\ data_pointer = TapeLen \div 2
    /\ instruction_pointer = 0
    /\ reader \in Readers
    /\ reader0 = reader
    /\ writer = <<>>
    /\ writer_full = FALSE
    /\ status = "running"
    /\ overflow_checks \in BOOLEAN

\* Lines 88-121: one iteration of the while loop, with an output channel that
\* answers a write with one of answers.
StepWith(answers) ==
    /\ status = "running"
    /\ instruction_pointer < Len(commands)
    /\ \E w \in answers :
        LET st == exec(At(commands, instruction_pointer), EvalState, w, overflow_checks) IN
        /\ tape' = st.tape
        /\ data_pointer' = st.data_pointer
        /\ instruction_pointer' = st.instruction_pointer
        /\ reader' = st.reader
        /\ writer' = st.writer
        /\ writer_full' = st.writer_full
        /\ status' = st.status
    /\ UNCHANGED <<reader0, tape0, overflow_checks>>
    /\ UNCHANGED compile_vars
    /\ UNCHANGED main_vars

\* One iteration with any output channel.
Step == StepWith(WriteResults(writer, writer_full))

\* One iteration with a Vec<u8> as the output channel, as in test_hello_world
\* and test_cat: every write is accepted.
StepVec == StepWith({"written"})

\* Lines 88 and 123: the loop ends and Ok(()) is returned.
Halt ==
    /\ status = "running"
    /\ instruction_pointer >= Len(commands)
    /\ status' = "ok"
    /\ UNCHANGED <<tape, data_pointer, instruction_pointer, reader, reader0, writer,
                   writer_full, tape0, overflow_checks>>
    /\ UNCHANGED compile_vars
    /\ UNCHANGED main_vars

NextEval == Step \/ Halt

SpecEval == InitEval /\ [][NextEval]_vars

(***************************************************************************)
(* The transfer loop of test_eval_add, on the tapes [a, b] with            *)
(* a + b <= 255.  eval_on_tape is one synchronous call: once called, its   *)
(* loop keeps taking steps, which is the fairness of SpecAdd.              *)
(***************************************************************************)
AddSource == <<"[", "-", ">", "+", "<", "]">>

AddProgram ==
    <<JumpForwardIfZero(5), Decrement, IncrementDataPointer, Increment,
      DecrementDataPointer, JumpBackwardIfNonZero(0)>>

InitAdd ==
    /\ Compiled(AddSource)
    /\ \E a \in 0..MaxA : \E b \in 0..(Byte - 1 - a) : tape = Vec(<<a, b>>)
    /\ tape0 = tape
    /\ data_pointer = 0
    /\ instruction_pointer = 0
    /\ reader = <<ReadOk(0)>>
    /\ reader0 = reader
    /\ writer = <<>>
    /\ writer_full = FALSE
    /\ status = "running"
    /\ overflow_checks \in BOOLEAN

SpecAdd == InitAdd /\ [][NextEval]_vars /\ WF_vars(NextEval)

(***************************************************************************)
(* eval and main.                                                          *)
(***************************************************************************)
TapeSize == 10000

\* vec![0; 10_000]
ZeroTape == Vec([k \in 1..TapeSize |-> 0])

\* The variables of eval_on_tape as eval calls it, with the input channel rd.
EvalCalled(rd) ==
    /\ tape = ZeroTape
    /\ tape0 = ZeroTape
    /\ data_pointer = ZeroTape.len \div 2
    /\ instruction_pointer = 0
    /\ reader = rd
    /\ reader0 = rd
    /\ writer = <<>>
    /\ writer_full = FALSE
    /\ status = "running"

NoArgumentMessage ==
    "No second argument. Please provide an argument with Brainfuck program as a string."

\* The characters of "The program is incorrect. Unmatched bracket at index ".
UnmatchedText ==
    <<"T", "h", "e", " ", "p", "r", "o", "g", "r", "a", "m", " ",
     "i", "s", " ", "i", "n", "c", "o", "r", "r", "e", "c", "t",
     ".", " ", "U", "n", "m", "a", "t", "c", "h", "e", "d", " ",
     "b", "r", "a", "c", "k", "e", "t", " ", "a", "t", " ", "i",
     "n", "d", "e", "x", " ">>

\* {index}: the decimal digits of a usize.
RECURSIVE Decimal(_)
Decimal(n) ==
    LET digit == <<"0", "1", "2", "3", "4", "5", "6", "7", "8", "9">>[(n % 10) + 1]
    IN IF n < 10 THEN <<digit>> ELSE Append(Decimal(n \div 10), digit)

\* The line writeln! formats for an unmatched bracket, character by character.
UnmatchedMessage(index) == UnmatchedText \o Decimal(index) \o <<"\n">>

\* What standard input holds: nothing, a byte, or a read that fails.
StdinScripts == {<<>>, <<ReadOk(1)>>, <<ReadFail>>}

\* main is started with at most one argument, standard input holding a script.
InitMain ==
    /\ args \in {<<>>} \cup {<<t>> : t \in SeqsUpTo(Chars, MaxMain)}
    /\ stderr = <<>>
    /\ main_result = None
    /\ text = <<>>
    /\ tokens = <<>>
    /\ i = 0
    /\ brackets_stack = <<>>
    /\ brackets_swaps = <<>>
    /\ commands = <<>>
    /\ pc = "main"
    /\ result = None
    /\ tape = Vec(<<>>)
    /\ tape0 = Vec(<<>>)
    /\ data_pointer = 0
    /\ instruction_pointer = 0
    /\ reader \in StdinScripts
    /\ reader0 = reader
    /\ writer = <<>>
    /\ writer_full = FALSE
    /\ status = "idle"
    /\ overflow_checks \in BOOLEAN

\* Lines 134-140: the argument is taken, or its absence returned as an error.
MainStart ==
    /\ pc = "main"
    /\ IF args = <<>>
       THEN /\ pc' = "exit"
            /\ main_result' = Err(NoArgumentMessage)
            /\ text' = text
       ELSE /\ pc' = "start"
            /\ main_result' = main_result
            /\ text' = args[1]
    /\ UNCHANGED <<args, stderr, tokens, i, brackets_stack, brackets_swaps, commands,
                   result>>
    /\ UNCHANGED eval_vars

\* The program run whatever compile returned.
MainEvalUnchecked ==
    /\ pc = "done"
    /\ pc' = "eval"
    /\ tape' = ZeroTape
    /\ tape0' = ZeroTape
    /\ data_pointer' = ZeroTape.len \div 2
    /\ instruction_pointer' = 0
    /\ status' = "running"
    /\ UNCHANGED <<reader, reader0, writer, writer_full, overflow_checks>>
    /\ UNCHANGED <<text, tokens, i, brackets_stack, brackets_swaps, commands, result>>
    /\ UNCHANGED main_vars

\* Line 141 and lines 127-130: for Ok(program), eval makes the tape and calls
\* eval_on_tape with standard input and standard output.
MainEval ==
    /\ pc = "done"
    /\ result.tag = "Ok"
    /\ pc' = "eval"
    /\ tape' = ZeroTape
    /\ tape0' = ZeroTape
    /\ data_pointer' = ZeroTape.len \div 2
    /\ instruction_pointer' = 0
    /\ status' = "running"
    /\ UNCHANGED <<reader, reader0, writer, writer_full, overflow_checks>>
    /\ UNCHANGED <<text, tokens, i, brackets_stack, brackets_swaps, commands, result>>
    /\ UNCHANGED main_vars

\* Lines 142-145: for a parsing error, the message goes to the error channel and
\* main returns what writeln! returned.  The channel takes the first n characters
\* of the line: all of them and writeln! returns Ok(()), or fewer and it returns
\* the error of the write that failed.  With the channel not open for writing
\* the standard library reports success with nothing written.
MainReport ==
    /\ pc = "done"
    /\ result.tag = "Err"
    /\ pc' = "exit"
    /\ LET line == UnmatchedMessage(result.val.address) IN
       \E n \in 0..Len(line) : \E not_open \in BOOLEAN :
        /\ not_open => n = 0
        /\ stderr' = stderr \o SubSeq(line, 1, n)
        /\ main_result' = IF n = Len(line) \/ not_open THEN Ok(<<>>)
                           ELSE Err("err_write")
    /\ UNCHANGED <<args, text, tokens, i, brackets_stack, brackets_swaps, commands,
                   result>>
    /\ UNCHANGED eval_vars

\* Line 141: main returns what eval returned. A panic returns nothing.
MainReturn ==
    /\ pc = "eval"
    /\ status \in {"ok", "err_write", "err_read"}
    /\ pc' = "exit"
    /\ main_result' = IF status = "ok" THEN Ok(<<>>) ELSE Err(status)
    /\ UNCHANGED <<args, stderr, text, tokens, i, brackets_stack, brackets_swaps,
                   commands, result>>
    /\ UNCHANGED eval_vars

NextMain ==
    \/ MainStart
    \/ Tokenize
    \/ Scan
    \/ CheckStack
    \/ SwapPair
    \/ ReturnOk
    \/ MainEval
    \/ MainReport
    \/ Step
    \/ Halt
    \/ MainReturn

SpecMain == InitMain /\ [][NextMain]_vars

(***************************************************************************)
(* The programs of test_cat and test_hello_world, run by eval with the     *)
(* channels of the tests: a slice as the input, which no read of fails,    *)
(* and a Vec<u8> as the output, which accepts every write.  eval is one    *)
(* synchronous call, which is the fairness of the two specifications.      *)
(***************************************************************************)
NextVec == StepVec \/ Halt

EchoSource ==
    <<">", ",", "[", ">", ",", "]", "<", "[", "<", "]", ">", "[", ".", ">", "]">>

EchoBytes == {0, 1, Byte - 1}

EchoInputs ==
    {[k \in 1..Len(bs) |-> ReadOk(bs[k])] : bs \in SeqsUpTo(EchoBytes, MaxEcho)}

InitEcho ==
    /\ Compiled(EchoSource)
    /\ \E rd \in EchoInputs : EvalCalled(rd)
    /\ overflow_checks \in BOOLEAN

SpecEcho == InitEcho /\ [][NextVec]_vars /\ WF_vars(NextVec)

HelloSource ==
    <<"+", "+", "+", "+", "+", "+", "+", "+", "[", ">", "+", "+",
      "+", "+", "[", ">", "+", "+", ">", "+", "+", "+", ">", "+",
      "+", "+", ">", "+", "<", "<", "<", "<", "-", "]", ">", "+",
      ">", "+", ">", "-", ">", ">", "+", "[", "<", "]", "<", "-",
      "]", ">", ">", ".", ">", "-", "-", "-", ".", "+", "+", "+",
      "+", "+", "+", "+", ".", ".", "+", "+", "+", ".", ">", ">",
      ".", "<", "-", ".", "<", ".", "+", "+", "+", ".", "-", "-",
      "-", "-", "-", "-", ".", "-", "-", "-", "-", "-", "-", "-",
      "-", ".", ">", ">", "+", ".", ">", "+", "+", ".">>

\* "Hello World!\n".as_bytes()
HelloBytes == <<72, 101, 108, 108, 111, 32, 87, 111, 114, 108, 100, 33, 10>>

InitHello ==
    /\ Compiled(HelloSource)
    /\ EvalCalled(<<ReadOk(0)>>)
    /\ overflow_checks \in BOOLEAN

SpecHello == InitHello /\ [][NextVec]_vars /\ WF_vars(NextVec)

(***************************************************************************)
(* Bracket structure of a token list, defined from the tokens alone.       *)
(***************************************************************************)
Delta(t) == IF t = "[" THEN 1 ELSE IF t = "]" THEN -1 ELSE 0

\* The sum of Delta over the source indices lo..hi of toks.
RECURSIVE DepthSum(_, _, _)
DepthSum(toks, lo, hi) ==
    IF hi < lo THEN 0 ELSE DepthSum(toks, lo, hi - 1) + Delta(At(toks, hi))

Balanced(toks, lo, hi) ==
    /\ DepthSum(toks, lo, hi) = 0
    /\ \A k \in lo..hi : DepthSum(toks, lo, k) >= 0

Positions(toks) == 0..(Len(toks) - 1)

MatchedPair(toks, a, b) ==
    /\ a < b
    /\ At(toks, a) = "["
    /\ At(toks, b) = "]"
    /\ Balanced(toks, a + 1, b - 1)

UnmatchedOpens(toks) ==
    {a \in Positions(toks) :
        At(toks, a) = "[" /\ ~\E b \in Positions(toks) : MatchedPair(toks, a, b)}

UnmatchedCloses(toks) ==
    {b \in Positions(toks) :
        At(toks, b) = "]" /\ ~\E a \in Positions(toks) : MatchedPair(toks, a, b)}

Unmatched(toks) == UnmatchedOpens(toks) \cup UnmatchedCloses(toks)

Min(S) == CHOOSE m \in S : \A n \in S : m <= n

Returned == pc = "done"
ReturnedOk == pc = "done" /\ result.tag = "Ok"
ReturnedErr == pc = "done" /\ result.tag = "Err"

(***************************************************************************)
(* C1. When compile succeeds, the returned list has one command per token, *)
(* every jump in it carries a valid index of the list, and for each        *)
(* matched pair with '[' at a and ']' at b the command at a is             *)
(* JumpForwardIfZero(b) and the command at b is JumpBackwardIfNonZero(a).  *)
(***************************************************************************)
C1_JumpTargets ==
    ReturnedOk =>
        LET cmds == result.val IN
        /\ Len(cmds) = Len(tokens)
        /\ \A k \in Positions(cmds) :
               IsJump(At(cmds, k)) => At(cmds, k).address \in Positions(cmds)
        /\ \A a, b \in Positions(tokens) :
               MatchedPair(tokens, a, b) =>
                   /\ At(cmds, a) = JumpForwardIfZero(b)
                   /\ At(cmds, b) = JumpBackwardIfNonZero(a)

\* A nested loop has been compiled.
C1_Witness ==
    /\ ReturnedOk
    /\ \E a, b, c, d \in Positions(tokens) :
           /\ a < c /\ d < b
           /\ MatchedPair(tokens, a, b)
           /\ MatchedPair(tokens, c, d)

(***************************************************************************)
(* C3 as stated: compile fails exactly when the number of unmatched '['    *)
(* differs from the number of unmatched ']'.                               *)
(***************************************************************************)
C3_Original ==
    Returned =>
        (result.tag = "Err" <=>
            Cardinality(UnmatchedOpens(tokens)) # Cardinality(UnmatchedCloses(tokens)))

(***************************************************************************)
(* C3 amended: compile fails exactly when some bracket is unmatched; when  *)
(* it succeeds there is no unmatched bracket of either kind (so the two    *)
(* counts are equal), and when it fails the reported index is the filtered *)
(* position of the first unmatched bracket.                                *)
(***************************************************************************)
C3_FailsIffUnmatched ==
    Returned =>
        /\ result.tag = "Err" <=> Unmatched(tokens) # {}
        /\ result.tag = "Ok" =>
               Cardinality(UnmatchedOpens(tokens)) = Cardinality(UnmatchedCloses(tokens))
        /\ result.tag = "Err" =>
               result.val = UnmatchedBracket(Min(Unmatched(tokens)))

\* compile has failed on a source with as many unmatched '[' as unmatched ']'.
C3_Witness ==
    /\ ReturnedErr
    /\ UnmatchedOpens(tokens) # {}
    /\ Cardinality(UnmatchedOpens(tokens)) = Cardinality(UnmatchedCloses(tokens))

(***************************************************************************)
(* C4. When the scan loop meets a ']' at filtered position i with the      *)
(* stack empty, that step returns Err(UnmatchedBracket(i)): the loop index *)
(* does not move on, nothing is emitted for the ']', and once compile has  *)
(* returned an error no variable of compile changes again.                 *)
(***************************************************************************)
CloseOnEmptyStack ==
    /\ pc = "scan"
    /\ i < Len(tokens)
    /\ At(tokens, i) = "]"
    /\ brackets_stack = <<>>

C4_FailsImmediately ==
    [][/\ CloseOnEmptyStack =>
            /\ pc' = "done"
            /\ result' = Err(UnmatchedBracket(i))
            /\ i' = i
            /\ commands' = commands
       /\ ReturnedErr => UNCHANGED compile_vars]_vars

\* compile has failed at a ']' that further tokens, brackets among them, follow.
C4_Witness ==
    /\ ReturnedErr
    /\ i + 1 < Len(tokens)
    /\ At(tokens, i) = "]"
    /\ result.val = UnmatchedBracket(i)
    /\ At(tokens, i + 1) = "["
    /\ Len(commands) = i

(***************************************************************************)
(* C5. When the scan ends with some '[' still open, compile fails with the *)
(* position of the earliest '[' that is still open, the bottom of the      *)
(* stack.                                                                  *)
(***************************************************************************)
ScanEndedOpen ==
    /\ pc = "done"
    /\ i >= Len(tokens)
    /\ brackets_stack # <<>>

C5_EarliestOpen ==
    /\ ScanEndedOpen =>
           /\ result = Err(UnmatchedBracket(Min(UnmatchedOpens(tokens))))
           /\ result.val.address = brackets_stack[1]
           /\ UnmatchedCloses(tokens) = {}
    /\ (pc = "swap" \/ ReturnedOk) => brackets_stack = <<>>

\* Two '[' are still open, and the reported one is not the innermost.
C5_Witness ==
    /\ ScanEndedOpen
    /\ Len(brackets_stack) >= 2
    /\ result.val.address # brackets_stack[Len(brackets_stack)]
    /\ \E a, b \in Positions(tokens) : MatchedPair(tokens, a, b)

(***************************************************************************)
(* C9. Characters outside charset do not count: compile returns for the    *)
(* text what it returns for the text with one such character inserted at   *)
(* any place, or with any one of them removed; and an error's index is a   *)
(* position of a bracket in the filtered text.                             *)
(***************************************************************************)
InsertAt(s, p, c) == SubSeq(s, 1, p) \o <<c>> \o SubSeq(s, p + 1, Len(s))
RemoveAt(s, p) == SubSeq(s, 1, p - 1) \o SubSeq(s, p + 1, Len(s))

InertVariants(s) ==
    {InsertAt(s, p, c) : p \in 0..Len(s), c \in Inert}
        \cup {RemoveAt(s, p) : p \in {q \in 1..Len(s) : s[q] \in Inert}}

SameResult(r1, r2) == r1.tag = r2.tag /\ r1.val = r2.val

C9_InertTransparent ==
    Returned =>
        /\ \A v \in InertVariants(text) : SameResult(compile(v), result)
        /\ result.tag = "Err" =>
               /\ result.val.address \in Positions(Filter(text))
               /\ At(Filter(text), result.val.address) \in {"[", "]"}

\* An error whose index differs from the raw offset of the bracket it names.
C9_Witness ==
    /\ ReturnedErr
    /\ \E p \in 1..Len(text) :
           /\ text[p] \in {"[", "]"}
           /\ Filter(SubSeq(text, 1, p - 1)) # SubSeq(text, 1, p - 1)
           /\ Len(Filter(SubSeq(text, 1, p - 1))) = result.val.address
    /\ \E q \in 1..Len(text) : text[q] \in Inert /\ q > 1

(***************************************************************************)
(* The step eval_on_tape is about to take.                                 *)
(***************************************************************************)
Running == status = "running" /\ instruction_pointer < Len(commands)
Current == At(commands, instruction_pointer)
InTape == InBounds(tape, data_pointer)
Cell == Index(tape, data_pointer)
Stored(v) == [tape EXCEPT !.cells = Put(@, data_pointer, v)]
Continues == status' = "running" /\ instruction_pointer' = instruction_pointer + 1
ReturnedErrValue == status \in {"err_write", "err_read"}
AccessesCell(c) ==
    c.op \in {"Increment", "Decrement", "WriteByte", "ReadByte",
              "JumpForwardIfZero", "JumpBackwardIfNonZero"}

(***************************************************************************)
(* C2. Increment on a cell holding 255 leaves 0 and Decrement on a cell    *)
(* holding 0 leaves 255, and in both cases the run continues with the next *)
(* instruction.                                                            *)
(***************************************************************************)
C2_Wraps ==
    [][/\ (Running /\ Current = Increment /\ InTape /\ Cell = Byte - 1) =>
            (tape' = Stored(0) /\ Continues)
       /\ (Running /\ Current = Decrement /\ InTape /\ Cell = 0) =>
            (tape' = Stored(Byte - 1) /\ Continues)]_vars

(***************************************************************************)
(* C6. An Input instruction executed at the end of the input, with the     *)
(* data pointer on a cell of the tape, sets that cell to 0 and the run     *)
(* continues with the next instruction; the input stays at its end, so the *)
(* same holds of every later Input instruction.                            *)
(***************************************************************************)
C6_EofReadsZero ==
    [][(Running /\ Current = ReadByte /\ reader = <<>> /\ InTape) =>
            /\ tape' = Stored(0)
            /\ Continues
            /\ reader' = <<>>
            /\ data_pointer' = data_pointer]_vars

\* "+," has run with no input: the cell the Increment made non-zero holds 0.
C6_Witness ==
    /\ commands = <<Increment, ReadByte>>
    /\ instruction_pointer = 2
    /\ status \in {"running", "ok"}
    /\ reader = <<>>
    /\ InTape /\ Cell = 0
    /\ Index(tape0, data_pointer) = 1

(***************************************************************************)
(* C7 as stated: no condition on the input channel makes the run return an *)
(* error.                                                                  *)
(***************************************************************************)
C7_Original == status # "err_read"

(***************************************************************************)
(* C7 amended: the run returns an error value only from an Output          *)
(* instruction whose write fails or from an Input instruction whose read   *)
(* fails with an error other than the end of the input; the end of the     *)
(* input never makes it return an error.                                   *)
(***************************************************************************)
C7_OnlyIoErrors ==
    [][(status = "running" /\ status' \in {"err_write", "err_read"}) =>
            /\ Running
            /\ \/ Current = WriteByte /\ status' = "err_write"
               \/ /\ Current = ReadByte
                  /\ status' = "err_read"
                  /\ reader # <<>>
                  /\ Head(reader) = ReadFail]_vars

\* A failed read has been returned before anything was written.
C7_Witness ==
    /\ status = "err_read"
    /\ writer = <<>>
    /\ At(commands, instruction_pointer) = ReadByte

(***************************************************************************)
(* C8 as stated: MoveLeft with the data pointer at 0, and MoveRight with   *)
(* it at the last index of the tape, abort the run.                        *)
(***************************************************************************)
C8_Original ==
    [][(/\ Running
        /\ \/ Current = DecrementDataPointer /\ data_pointer = 0
           \/ Current = IncrementDataPointer /\ data_pointer = tape.len - 1)
       => status' = "panic"]_vars

(***************************************************************************)
(* C8 amended: the data pointer is never clamped or wrapped into the tape: *)
(* MoveRight always adds one and the run continues, also at the last       *)
(* index; MoveLeft subtracts one and the run continues, except that at 0   *)
(* it aborts in a build with overflow checks and leaves the pointer below  *)
(* the tape in a build without them.  Every instruction that reads or      *)
(* writes the current cell aborts the run when the pointer is outside the  *)
(* tape (an Input whose read fails returns that failure instead).          *)
(***************************************************************************)
C8_NeverClamped ==
    [][Running =>
        /\ Current = IncrementDataPointer =>
               (data_pointer' = data_pointer + 1 /\ Continues)
        /\ Current = DecrementDataPointer =>
               IF data_pointer = 0 /\ overflow_checks
               THEN status' = "panic"
               ELSE data_pointer' = data_pointer - 1 /\ Continues
        /\ (AccessesCell(Current) /\ ~InTape) =>
               \/ status' = "panic"
               \/ /\ Current = ReadByte
                  /\ status' = "err_read"
                  /\ reader # <<>> /\ Head(reader) = ReadFail]_vars

\* A run has ended successfully with the data pointer below the tape.
C8_Witness ==
    /\ status = "ok"
    /\ data_pointer < 0
    /\ At(commands, instruction_pointer - 1) = DecrementDataPointer

(***************************************************************************)
(* C10. On a two-cell tape [a, b] with a + b <= 255 and the data pointer   *)
(* at cell 0, the run of the list of test_eval_add, which is what compile  *)
(* returns for "[->+<]", ends with Ok(()) and the tape [0, a + b].         *)
(***************************************************************************)
C10_Transfer ==
    <>(/\ status = "ok"
       /\ commands = AddProgram
       /\ tape = Vec(<<0, Index(tape0, 0) + Index(tape0, 1)>>))

\* The run of the test: [1, 2] has become [0, 3].
C10_Witness ==
    /\ status = "ok"
    /\ commands = AddProgram
    /\ tape0 = Vec(<<1, 2>>)
    /\ tape = Vec(<<0, 3>>)

(***************************************************************************)
(* C13. A write that fails is returned at once: the step that ends in the  *)
(* write error is an Output instruction and changes neither the tape, the  *)
(* two pointers, the input nor the output, and nothing changes afterwards. *)
(***************************************************************************)
C13_WriteErrorReturns ==
    [][/\ (status = "running" /\ status' = "err_write") =>
            /\ Running
            /\ Current = WriteByte
            /\ tape' = tape
            /\ instruction_pointer' = instruction_pointer
            /\ data_pointer' = data_pointer
            /\ reader' = reader
            /\ writer' = writer
       /\ status = "err_write" => UNCHANGED vars]_vars

\* A write has failed after the tape was changed and a byte was written.
C13_Witness ==
    /\ status = "err_write"
    /\ writer # <<>>
    /\ tape # tape0
    /\ At(commands, instruction_pointer) = WriteByte

(***************************************************************************)
(* C15. The instruction pointer starts at 0, and every instruction after   *)
(* which the run continues leaves it one past the target of a taken jump,  *)
(* or one past its own index otherwise; JumpForwardIfZero is taken exactly *)
(* when the current cell is 0, JumpBackwardIfNonZero exactly when it is    *)
(* not.                                                                    *)
(***************************************************************************)
JumpIsTaken ==
    /\ IsJump(Current)
    /\ InTape
    /\ \/ Current.op = "JumpForwardIfZero" /\ Cell = 0
       \/ Current.op = "JumpBackwardIfNonZero" /\ Cell # 0

C15_PointerAdvance ==
    /\ instruction_pointer = 0
    /\ [][(Running /\ status' = "running") =>
            instruction_pointer' =
                (IF JumpIsTaken THEN Current.address ELSE instruction_pointer) + 1]_vars

\* The body of "[+]" has run and the ']' has jumped back to it.
C15_Witness ==
    /\ tokens = <<"[", "+", "]">>
    /\ status = "running"
    /\ instruction_pointer = 1
    /\ tape # tape0

(***************************************************************************)
(* C16. An Output instruction after which the run continues appends        *)
(* exactly the current cell to the output, and no other instruction        *)
(* changes the output.                                                     *)
(***************************************************************************)
C16_OneBytePerOutput ==
    [][Running =>
        IF Current = WriteByte /\ status' = "running"
        THEN writer' = Append(writer, Cell)
        ELSE writer' = writer]_vars

(***************************************************************************)
(* C17. MoveRight adds one to the data pointer and MoveLeft subtracts one  *)
(* (a step that aborts leaves it as it was); no other instruction changes  *)
(* the data pointer.                                                       *)
(***************************************************************************)
C17_PointerFrame ==
    [][Running =>
        IF Current = IncrementDataPointer /\ status' = "running"
            THEN data_pointer' = data_pointer + 1
        ELSE IF Current = DecrementDataPointer /\ status' = "running"
            THEN data_pointer' = data_pointer - 1
        ELSE data_pointer' = data_pointer]_vars

\* "<+" has run: the pointer is one to the left and that cell was changed.
C17_Witness ==
    /\ commands = <<DecrementDataPointer, Increment>>
    /\ instruction_pointer = 2
    /\ data_pointer = (TapeLen \div 2) - 1
    /\ tape # tape0

(***************************************************************************)
(* C18. In a run of a compiled list of N commands the instruction pointer  *)
(* stays within 0..N, and the run has ended with Ok(()) only with the      *)
(* pointer at N; with the pointer at N the run is going to return Ok(())   *)
(* or has returned it.                                                     *)
(***************************************************************************)
C18_PointerInRange ==
    /\ instruction_pointer \in 0..Len(commands)
    /\ status = "ok" => instruction_pointer = Len(commands)
    /\ instruction_pointer = Len(commands) => status \in {"running", "ok"}
    /\ Running => instruction_pointer \in Positions(commands)

\* The loop "[+]" was skipped by a jump to the last index, and the run has ended.
C18_Witness ==
    /\ tokens = <<"[", "+", "]">>
    /\ status = "ok"
    /\ tape = tape0
    /\ instruction_pointer = Len(commands)

(***************************************************************************)
(* C19. For a matched pair with '[' at a and ']' at b, a step of the       *)
(* command at a or at b that leaves the instruction pointer at b + 1 finds *)
(* the current cell 0, and one that leaves it at a + 1 finds it non-zero.  *)
(***************************************************************************)
C19_LoopCondition ==
    [][(Running /\ status' = "running") =>
        \A a, b \in Positions(tokens) :
            (MatchedPair(tokens, a, b) /\ instruction_pointer \in {a, b}) =>
                /\ instruction_pointer' = b + 1 => Index(tape', data_pointer') = 0
                /\ instruction_pointer' = a + 1 => Index(tape', data_pointer') # 0]_vars

\* The loop "[-]" has been entered and left.
C19_Witness ==
    /\ tokens = <<"[", "-", "]">>
    /\ instruction_pointer = 3
    /\ tape # tape0
    /\ Cell = 0

(***************************************************************************)
(* C20. A step changes no cell but the current one, never the length of    *)
(* the tape, and only Increment, Decrement and Input change any cell.      *)
(***************************************************************************)
C20_TapeFrame ==
    [][Running =>
        /\ tape'.len = tape.len
        /\ \A k \in 0..(tape.len - 1) :
                k # data_pointer => Index(tape', k) = Index(tape, k)
        /\ Current.op \notin {"Increment", "Decrement", "ReadByte"} => tape' = tape]_vars

\* "+" has run: the current cell is one more and the other cells are as passed.
C20_Witness ==
    /\ commands = <<Increment>>
    /\ instruction_pointer = 1
    /\ InTape
    /\ Cell = Index(tape0, data_pointer) + 1
    /\ \A k \in 0..(tape.len - 1) : k # data_pointer => Index(tape, k) = Index(tape0, k)

(***************************************************************************)
(* C11. The echo program run by eval ends with Ok(()) having written       *)
(* exactly the bytes of the input that precede its first zero byte, all of *)
(* the input when it holds none; no zero byte is ever written.             *)
(***************************************************************************)
RECURSIVE BeforeZero(_)
BeforeZero(rd) ==
    IF rd = <<>> \/ Head(rd).byte = 0 THEN <<>>
    ELSE <<Head(rd).byte>> \o BeforeZero(Tail(rd))

C11_Echo ==
    /\ [](\A k \in 1..Len(writer) : writer[k] # 0)
    /\ <>(status = "ok" /\ writer = BeforeZero(reader0))

\* Two bytes were echoed and the zero byte after them, with what follows it, was not.
C11_Witness ==
    /\ text = EchoSource
    /\ status = "ok"
    /\ Len(writer) = 2
    /\ Len(reader0) > 2
    /\ reader0[3] = ReadOk(0)

(***************************************************************************)
(* C12. The Hello World program run by eval keeps the data pointer inside  *)
(* the tape of 10,000 cells, never fails, and ends with Ok(()) having      *)
(* written exactly the bytes of "Hello World!" and a newline.              *)
(***************************************************************************)
C12_HelloWorld ==
    /\ [](status \in {"running", "ok"} /\ InTape)
    /\ <>(status = "ok" /\ writer = HelloBytes)

\* The run has ended with the thirteen bytes written, away from where it started.
C12_Witness ==
    /\ text = HelloSource
    /\ status = "ok"
    /\ writer = HelloBytes
    /\ tape.len = TapeSize
    /\ data_pointer # TapeSize \div 2

(***************************************************************************)
(* C14. When compile has returned a parsing error, the virtual machine is  *)
(* never started: no tape is made, no instruction executed, nothing read   *)
(* from the input or written to the output.  main ends having written the  *)
(* unmatched-bracket line, with the reported index, to the error channel   *)
(* and returns Ok(()); or it returns Ok(()) with nothing written (an error *)
(* channel not open for writing); or, when a write to the error channel    *)
(* fails, it returns that error with only a part of the line written.      *)
(***************************************************************************)
\* C14 as stated: on a parsing error main has, when it ends, reported the line.
C14_Original ==
    (result.tag = "Err" /\ pc = "exit") =>
        stderr = UnmatchedMessage(result.val.address)

IsPrefix(p, s) == Len(p) <= Len(s) /\ p = SubSeq(s, 1, Len(p))

C14_NoRunOnParseError ==
    result.tag = "Err" =>
        /\ status = "idle"
        /\ tape = Vec(<<>>)
        /\ instruction_pointer = 0
        /\ reader = reader0
        /\ writer = <<>>
        /\ pc \in {"done", "exit"}
        /\ pc = "done" => stderr = <<>> /\ main_result = None
        /\ pc = "exit" =>
            IF main_result.tag = "Ok"
            THEN stderr \in {UnmatchedMessage(result.val.address), <<>>}
            ELSE /\ main_result.tag = "Err"
                 /\ IsPrefix(stderr, UnmatchedMessage(result.val.address))
                 /\ stderr # UnmatchedMessage(result.val.address)

\* main has reported the second character of "+]" with input waiting unread.
C14_Witness ==
    /\ pc = "exit"
    /\ result.tag = "Err"
    /\ main_result.tag = "Ok"
    /\ args = <<<<"+", "]">>>>
    /\ reader0 # <<>>
    /\ stderr = UnmatchedText \o <<"1", "\n">>

====
